---- MODULE Spec2Model ----
(***************************************************************************)
(* Model of @syntropylog/types.  The only executable code of the package   *)
(* is errorToJsonValue (src/index.ts:75-84):                               *)
(*                                                                         *)
(*   export function errorToJsonValue(error: unknown): JsonValue {         *)
(*     if (error instanceof Error) {                                       *)
(*       return { name: error.name, message: error.message,                *)
(*                stack: error.stack || null };                            *)
(*     }                                                                   *)
(*     return String(error);                                               *)
(*   }                                                                     *)
(*                                                                         *)
(* The function is modelled together with the part of the ECMAScript       *)
(* semantics it relies on: instanceof (a walk of the prototype chain),     *)
(* property reads (own data properties, accessors, inherited properties),  *)
(* the || operator (truthiness) and String() (ToPrimitive / ToString).     *)
(* An invocation is a frame on the call stack that advances one source     *)
(* expression per step; code supplied by the input (an accessor, a         *)
(* toString method) may throw, may write program state, or may call        *)
(* errorToJsonValue again.                                                 *)
(***************************************************************************)
EXTENDS Integers, Sequences, FiniteSets

(***************************************************************************)
(* Bounds of the model.                                                    *)
(***************************************************************************)
\* Calls are started only while fewer than MaxEffects writes by input code
\* have been observed.
MaxEffects == 2

(***************************************************************************)
(* JavaScript values.                                                      *)
(***************************************************************************)
Undefined == [kind |-> "undefined"]
Null == [kind |-> "null"]
Bool(b) == [kind |-> "boolean", b |-> b]
Num(n) == [kind |-> "number", n |-> n]
BigInt(n) == [kind |-> "bigint", n |-> n]
Str(s) == [kind |-> "string", s |-> s]
Sym(d) == [kind |-> "symbol", desc |-> d]

\* A property slot of an object: absent, a data property holding v, an
\* accessor whose getter throws, an accessor whose getter writes program
\* state and then returns v, or an accessor whose getter calls
\* errorToJsonValue on arg before it returns v.
Absent == [t |-> "absent", v |-> Undefined, arg |-> Undefined]
Data(v) == [t |-> "data", v |-> v, arg |-> Undefined]
GetterThrows == [t |-> "throws", v |-> Undefined, arg |-> Undefined]
GetterEffect(v) == [t |-> "effect", v |-> v, arg |-> Undefined]
GetterReenters(v, a) == [t |-> "reenter", v |-> v, arg |-> a]

\* The own toString of an object: none (inherited), or a method that returns
\* v, throws, writes program state and returns v, or calls errorToJsonValue
\* on arg before it returns v.
Inherited == [t |-> "inherited", v |-> Undefined, arg |-> Undefined]
Returns(v) == [t |-> "returns", v |-> v, arg |-> Undefined]
MethodThrows == [t |-> "throws", v |-> Undefined, arg |-> Undefined]
MethodEffect(v) == [t |-> "effect", v |-> v, arg |-> Undefined]
Reenters(v, a) == [t |-> "reenter", v |-> v, arg |-> a]

OwnKeys == {"name", "message", "stack", "cause", "request"}

NoOwn == [k \in OwnKeys |-> Absent]

\* An object: its class (the internal slots it was created with), its
\* prototype chain, its own properties, its own toString and, for an array,
\* its elements.
Obj(class, chain, own, toStr, elems) ==
  [kind |-> "object", class |-> class, chain |-> chain, own |-> own,
   toStr |-> toStr, elems |-> elems]

\* Inside an array: a reference to the array itself.
SelfRef == [kind |-> "cycle"]

ObjectChain == <<"Object.prototype">>
ErrorChain == <<"Error.prototype", "Object.prototype">>
TypeErrorChain == <<"TypeError.prototype", "Error.prototype", "Object.prototype">>
\* class HttpError extends Error {} : a subclass that sets no name.
SubclassChain == <<"HttpError.prototype", "Error.prototype", "Object.prototype">>
\* An Error created in another realm (vm context, iframe, worker).
ForeignErrorChain == <<"Error.prototype@realm2", "Object.prototype@realm2">>
ArrayChain == <<"Array.prototype", "Object.prototype">>
FunctionChain == <<"Function.prototype", "Object.prototype">>
\* Object.create(null)
NullChain == <<>>

PlainObject == Obj("Object", ObjectChain, NoOwn, Inherited, <<>>)
FunctionObject == Obj("Function", FunctionChain, NoOwn, Inherited, <<>>)
\* new Proxy({}, { getPrototypeOf() { throw ... } })
HostileProxy == Obj("Proxy", ObjectChain, NoOwn, Inherited, <<>>)

\* Completion records: a normal completion carries a value, and both kinds
\* carry the number of writes input code made on the way.
Normal(v, fx) == [t |-> "normal", v |-> v, fx |-> fx]
Throw(fx) == [t |-> "throw", v |-> Undefined, fx |-> fx]

(***************************************************************************)
(* ECMAScript operations used by errorToJsonValue.                         *)
(***************************************************************************)
\* OrdinaryHasInstance(C, O) for C = Error: some object on the prototype
\* chain of O is Error.prototype of this realm.
RECURSIVE ChainHas(_, _)
ChainHas(chain, proto) ==
  IF chain = <<>> THEN FALSE
  ELSE IF Head(chain) = proto THEN TRUE
  ELSE ChainHas(Tail(chain), proto)

\* A variant that recognises an error by its fields: typeof error ===
\* "object" && "message" in error.
InstanceofDuck(v) ==
  IF v.kind # "object" THEN Normal(Bool(FALSE), 0)
  ELSE IF v.class = "Proxy" THEN Throw(0)
  ELSE Normal(Bool(v.own["message"].t # "absent"
                     \/ ChainHas(v.chain, "Error.prototype")), 0)

\* A variant that looks at the direct prototype only:
\* Object.getPrototypeOf(error) === Error.prototype
InstanceofDirect(v) ==
  IF v.kind # "object" THEN Normal(Bool(FALSE), 0)
  ELSE IF v.class = "Proxy" THEN Throw(0)
  ELSE Normal(Bool(v.chain # <<>> /\ Head(v.chain) = "Error.prototype"), 0)

\* error instanceof Error
InstanceofError(v) ==
  IF v.kind # "object" THEN Normal(Bool(FALSE), 0)
  ELSE IF v.class = "Proxy" THEN Throw(0)
  ELSE Normal(Bool(ChainHas(v.chain, "Error.prototype")), 0)

\* The data properties of the built-in prototype objects.
ProtoProp(proto, key) ==
  CASE proto \in {"Error.prototype", "Error.prototype@realm2"} /\ key = "name" -> Data(Str("Error"))
    [] proto \in {"Error.prototype", "Error.prototype@realm2"} /\ key = "message" -> Data(Str(""))
    [] proto = "TypeError.prototype" /\ key = "name" -> Data(Str("TypeError"))
    [] proto = "TypeError.prototype" /\ key = "message" -> Data(Str(""))
    [] OTHER -> Absent

RECURSIVE ChainLookup(_, _)
ChainLookup(chain, key) ==
  IF chain = <<>> THEN Absent
  ELSE IF ProtoProp(Head(chain), key).t # "absent" THEN ProtoProp(Head(chain), key)
  ELSE ChainLookup(Tail(chain), key)

\* O.[[Get]](key): the own property, else the first one on the prototype
\* chain, else undefined; an accessor runs its getter.
Get(O, key) ==
  LET slot == IF O.own[key].t # "absent" THEN O.own[key] ELSE ChainLookup(O.chain, key)
  IN CASE slot.t = "absent" -> Normal(Undefined, 0)
       [] slot.t \in {"data", "reenter"} -> Normal(slot.v, 0)
       [] slot.t = "throws" -> Throw(0)
       [] slot.t = "effect" -> Normal(slot.v, 1)

\* ToBoolean
Truthy(v) ==
  CASE v.kind \in {"undefined", "null"} -> FALSE
    [] v.kind = "boolean" -> v.b
    [] v.kind \in {"number", "bigint"} -> v.n # 0
    [] v.kind = "string" -> v.s # ""
    [] OTHER -> TRUE

\* A variant that falls back for null and undefined only: a ?? b
OrNullish(a, b) == IF a.kind \in {"undefined", "null"} THEN b ELSE a

\* A variant without the fallback: stack: error.stack
OrLeft(a, b) == a

\* a || b
Or(a, b) == IF Truthy(a) THEN a ELSE b

Digit(d) ==
  CASE d = 0 -> "0" [] d = 1 -> "1" [] d = 2 -> "2" [] d = 3 -> "3" [] d = 4 -> "4"
    [] d = 5 -> "5" [] d = 6 -> "6" [] d = 7 -> "7" [] d = 8 -> "8" [] d = 9 -> "9"

RECURSIVE Digits(_)
Digits(n) == IF n < 10 THEN Digit(n) ELSE Digits(n \div 10) \o Digit(n % 10)

\* Number::toString for the integers of the model.
NumberToString(n) == IF n < 0 THEN "-" \o Digits(0 - n) ELSE Digits(n)

\* The builtinTag of Object.prototype.toString.
BuiltinTag(O) ==
  CASE O.class = "Array" -> "[object Array]"
    [] O.class = "Error" -> "[object Error]"
    [] O.class = "Function" -> "[object Function]"
    [] OTHER -> "[object Object]"

\* Which prototype objects define toString.
ProtoToString(proto) ==
  CASE proto \in {"Object.prototype", "Object.prototype@realm2"} -> "Object.prototype.toString"
    [] proto \in {"Error.prototype", "Error.prototype@realm2"} -> "Error.prototype.toString"
    [] proto = "Array.prototype" -> "Array.prototype.toString"
    [] proto = "Function.prototype" -> "Function.prototype.toString"
    [] OTHER -> "none"

RECURSIVE InheritedToString(_)
InheritedToString(chain) ==
  IF chain = <<>> THEN "none"
  ELSE IF ProtoToString(Head(chain)) # "none" THEN ProtoToString(Head(chain))
  ELSE InheritedToString(Tail(chain))

\* Sequencing of completions: the writes made so far are kept.
AddFx(c, fx) == [c EXCEPT !.fx = c.fx + fx]

RECURSIVE ToString(_)
RECURSIVE ToPrimitive(_)
RECURSIVE ErrorProtoToString(_)
RECURSIVE Join(_, _)

\* Array.prototype.join(","): undefined and null elements give "", a
\* reference back to the array being joined gives "" (the engines' cycle
\* detection), any other element gives its ToString.
Join(elems, first) ==
  IF elems = <<>> THEN Normal(Str(""), 0)
  ELSE LET e == Head(elems)
           one == IF e.kind \in {"undefined", "null", "cycle"} THEN Normal(Str(""), 0)
                  ELSE ToString(e)
           sep == IF first THEN "" ELSE ","
       IN IF one.t = "throw" THEN one
          ELSE LET rest == Join(Tail(elems), FALSE)
               IN IF rest.t = "throw" THEN AddFx(rest, one.fx)
                  ELSE Normal(Str(sep \o one.v.s \o rest.v.s), one.fx + rest.fx)

\* Error.prototype.toString
ErrorProtoToString(O) ==
  LET n == Get(O, "name") IN
  IF n.t = "throw" THEN n
  ELSE LET ns == IF n.v.kind = "undefined" THEN Normal(Str("Error"), 0) ELSE ToString(n.v) IN
       IF ns.t = "throw" THEN AddFx(ns, n.fx)
       ELSE LET m == Get(O, "message") IN
            IF m.t = "throw" THEN AddFx(m, n.fx + ns.fx)
            ELSE LET ms == IF m.v.kind = "undefined" THEN Normal(Str(""), 0) ELSE ToString(m.v)
                     fx == n.fx + ns.fx + m.fx + ms.fx
                 IN IF ms.t = "throw" THEN AddFx(ms, n.fx + ns.fx + m.fx)
                    ELSE IF ns.v.s = "" THEN Normal(ms.v, fx)
                    ELSE IF ms.v.s = "" THEN Normal(ns.v, fx)
                    ELSE Normal(Str(ns.v.s \o ": " \o ms.v.s), fx)

\* A variant that formats every object itself and never calls its toString:
\* Object.prototype.toString.call(error)
ToPrimitiveTag(O) == Normal(Str(BuiltinTag(O)), 0)

\* ToPrimitive(O, string): OrdinaryToPrimitive calls toString, then valueOf.
\* valueOf is Object.prototype.valueOf when inherited, which returns the
\* object itself, so a toString that is missing or returns an object ends in
\* a TypeError.
ToPrimitive(O) ==
  LET m == O.toStr IN
  CASE m.t = "throws" -> Throw(0)
    [] m.t = "effect" -> IF m.v.kind = "object" THEN Throw(1) ELSE Normal(m.v, 1)
    [] m.t \in {"returns", "reenter"} -> IF m.v.kind = "object" THEN Throw(0) ELSE Normal(m.v, 0)
    [] m.t = "inherited" ->
         LET b == InheritedToString(O.chain) IN
         CASE b = "none" -> Throw(0)
           [] b = "Object.prototype.toString" -> Normal(Str(BuiltinTag(O)), 0)
           [] b = "Error.prototype.toString" -> ErrorProtoToString(O)
           [] b = "Array.prototype.toString" -> Join(O.elems, TRUE)
           [] b = "Function.prototype.toString" -> Normal(Str("function () {}"), 0)

\* ToString(argument)
ToString(v) ==
  CASE v.kind = "undefined" -> Normal(Str("undefined"), 0)
    [] v.kind = "null" -> Normal(Str("null"), 0)
    [] v.kind = "boolean" -> Normal(Str(IF v.b THEN "true" ELSE "false"), 0)
    [] v.kind = "number" -> Normal(Str(NumberToString(v.n)), 0)
    [] v.kind = "bigint" -> Normal(Str(NumberToString(v.n)), 0)
    [] v.kind = "string" -> Normal(v, 0)
    [] v.kind = "symbol" -> Throw(0)
    [] v.kind = "object" ->
         LET p == ToPrimitive(v) IN
         IF p.t = "throw" THEN p ELSE AddFx(ToString(p.v), p.fx)

\* A variant that quotes strings, as JSON.stringify does.
StringQuoted(v) ==
  IF v.kind = "symbol" THEN Normal(Str("Symbol(" \o v.desc \o ")"), 0)
  ELSE IF v.kind = "string" THEN Normal(Str("\"" \o v.s \o "\""), 0)
  ELSE ToString(v)

\* String(value): a symbol gives its descriptive string, anything else its
\* ToString.
String(v) ==
  IF v.kind = "symbol" THEN Normal(Str("Symbol(" \o v.desc \o ")"), 0)
  ELSE ToString(v)

(***************************************************************************)
(* One invocation of errorToJsonValue: a frame.  pc names the source       *)
(* expression evaluated next; name, message and stack hold the values of   *)
(* the property reads already made; input is the argument as it is now and *)
(* input0 as it was at the call.                                           *)
(***************************************************************************)
NewFrame(error, w, again) ==
  [input |-> error, input0 |-> error, pc |-> "instanceof",
   name |-> Undefined, message |-> Undefined, stack |-> Undefined,
   entered |-> FALSE, fx |-> 0, world0 |-> w, again |-> again,
   out |-> [t |-> "none", v |-> Undefined, ref |-> "none"]]

\* An exception leaves the function: nothing in it catches.
Raise(f, fx) ==
  [f EXCEPT !.pc = "done", !.fx = @ + fx, !.entered = FALSE,
            !.out = [t |-> "throw", v |-> Undefined, ref |-> "none"]]

\* if (error instanceof Error)
StepInstanceof(f) ==
  LET c == InstanceofError(f.input) IN
  IF c.t = "throw" THEN Raise(f, c.fx)
  ELSE [f EXCEPT !.pc = IF c.v.b THEN "name" ELSE "string"]

\* The name of the class an object was constructed by: the constructor of
\* its direct prototype.
ConstructorName(chain) ==
  CASE chain = <<>> -> ""
    [] chain # <<>> /\ Head(chain) = "HttpError.prototype" -> "HttpError"
    [] chain # <<>> /\ Head(chain) = "TypeError.prototype" -> "TypeError"
    [] chain # <<>> /\ Head(chain) \in {"Error.prototype", "Error.prototype@realm2"} -> "Error"
    [] chain # <<>> /\ Head(chain) = "Array.prototype" -> "Array"
    [] chain # <<>> /\ Head(chain) = "Function.prototype" -> "Function"
    [] OTHER -> "Object"

\* A variant that names the error by its class: name: error.constructor.name
StepNameConstructor(f) ==
  LET c == Get(f.input, "name") IN
  IF c.t = "throw" THEN Raise(f, c.fx)
  ELSE [f EXCEPT !.name = Str(ConstructorName(f.input.chain)), !.pc = "message",
                 !.fx = @ + c.fx]

\* name: error.name
StepName(f) ==
  LET c == Get(f.input, "name") IN
  IF c.t = "throw" THEN Raise(f, c.fx)
  ELSE [f EXCEPT !.name = c.v, !.pc = "message", !.fx = @ + c.fx]

\* message: error.message
StepMessage(f) ==
  LET c == Get(f.input, "message") IN
  IF c.t = "throw" THEN Raise(f, c.fx)
  ELSE [f EXCEPT !.message = c.v, !.pc = "stack", !.fx = @ + c.fx]

\* A variant of a later source text, not yet built: stack: error.stack ?? null
StepStackNullish(f) ==
  LET c == Get(f.input, "stack") IN
  IF c.t = "throw" THEN Raise(f, c.fx)
  ELSE [f EXCEPT !.stack = OrNullish(c.v, Null), !.pc = "record", !.fx = @ + c.fx,
                 !.entered = FALSE]

\* A variant that goes over the fields again instead of finishing.
StepStackLoop(f) ==
  LET c == Get(f.input, "stack") IN
  IF c.t = "throw" THEN Raise(f, c.fx)
  ELSE [f EXCEPT !.stack = Or(c.v, Null), !.pc = "name", !.entered = FALSE]

\* A variant that forgets the stack: stack: null
StepStackDropped(f) ==
  LET c == Get(f.input, "stack") IN
  IF c.t = "throw" THEN Raise(f, c.fx)
  ELSE [f EXCEPT !.stack = Null, !.pc = "record", !.fx = @ + c.fx, !.entered = FALSE]

\* A variant that normalises the error in place:
\* stack: (error.stack = error.stack || null)
StepStackAssign(f) ==
  LET c == Get(f.input, "stack") IN
  IF c.t = "throw" THEN Raise(f, c.fx)
  ELSE [f EXCEPT !.stack = Or(c.v, Null), !.pc = "record", !.fx = @ + c.fx,
                 !.entered = FALSE, !.input.own["stack"] = Data(Or(c.v, Null))]

\* stack: error.stack || null
StepStack(f) ==
  LET c == Get(f.input, "stack") IN
  IF c.t = "throw" THEN Raise(f, c.fx)
  ELSE [f EXCEPT !.stack = Or(c.v, Null), !.pc = "record", !.fx = @ + c.fx,
                 !.entered = FALSE]

\* A variant that copies the error's own properties first:
\* return { ...error, name, message, stack }
StepRecordSpread(f) ==
  [f EXCEPT !.pc = "done",
            !.out = [t |-> "return", ref |-> "fresh",
                     v |-> IF f.input.own["cause"].t = "data"
                           THEN [name |-> f.name, message |-> f.message, stack |-> f.stack,
                                 cause |-> f.input.own["cause"].v]
                           ELSE [name |-> f.name, message |-> f.message, stack |-> f.stack]]]

\* return { name, message, stack }: the object literal is a new object with
\* the three properties.
StepRecord(f) ==
  [f EXCEPT !.pc = "done",
            !.out = [t |-> "return", ref |-> "fresh",
                     v |-> [name |-> f.name, message |-> f.message, stack |-> f.stack]]]

\* A variant that numbers its outputs from program state outside the
\* function: return String(error) + seq
StepStringNumbered(f) ==
  LET c == String(f.input) IN
  IF c.t = "throw" THEN Raise(f, c.fx)
  ELSE [f EXCEPT !.pc = "done", !.fx = @ + c.fx, !.entered = FALSE,
                 !.out = [t |-> "return", ref |-> "primitive",
                          v |-> Str(c.v.s \o NumberToString(f.world0))]]

\* A variant that returns the argument unconverted: return error
StepStringRaw(f) ==
  LET c == String(f.input) IN
  IF c.t = "throw" THEN Raise(f, c.fx)
  ELSE [f EXCEPT !.pc = "done", !.fx = @ + c.fx, !.entered = FALSE,
                 !.out = [t |-> "return", ref |-> "input", v |-> f.input]]

\* return String(error)
StepString(f) ==
  LET c == String(f.input) IN
  IF c.t = "throw" THEN Raise(f, c.fx)
  ELSE [f EXCEPT !.pc = "done", !.fx = @ + c.fx, !.entered = FALSE,
                 !.out = [t |-> "return", ref |-> "primitive", v |-> c.v]]

\* The argument that code of the input passes to errorToJsonValue during the
\* step at f.pc: the stack getter, or the toString method.
HookCall(f) ==
  IF f.input.kind # "object" \/ f.entered THEN <<>>
  ELSE IF f.pc = "stack" /\ f.input.own["stack"].t = "reenter"
    THEN <<f.input.own["stack"].arg>>
  ELSE IF f.pc = "string" /\ f.input.toStr.t = "reenter"
    THEN <<f.input.toStr.arg>>
  ELSE <<>>

\* The running of one invocation from its call to its end with nothing
\* interleaved: the steps of the function body in source order.
StepOf(f) ==
  CASE f.pc = "instanceof" -> StepInstanceof(f)
    [] f.pc = "name" -> StepName(f)
    [] f.pc = "message" -> StepMessage(f)
    [] f.pc = "stack" -> StepStack(f)
    [] f.pc = "record" -> StepRecord(f)
    [] f.pc = "string" -> StepString(f)

RECURSIVE RunAlone(_)
RunAlone(f) == IF f.pc = "done" THEN f ELSE RunAlone(StepOf(f))

\* errorToJsonValue(error) as one evaluation.
errorToJsonValue(error) == RunAlone(NewFrame(error, 0, FALSE)).out

\* The built CommonJS-style artifact, dist/index.js: errorToJsonValue as
\* one evaluation, its operands evaluated in order.
errorToJsonValueJs(error) ==
  LET thrown == [t |-> "throw", v |-> Undefined, ref |-> "none"]
      isError == InstanceofError(error)
  IN IF isError.t = "throw" THEN thrown
     ELSE IF isError.v.b
       THEN LET n == Get(error, "name")
                m == Get(error, "message")
                s == Get(error, "stack")
            IN IF n.t = "throw" \/ m.t = "throw" \/ s.t = "throw" THEN thrown
               ELSE [t |-> "return", ref |-> "fresh",
                     v |-> [name |-> n.v, message |-> m.v, stack |-> Or(s.v, Null)]]
       ELSE LET str == String(error)
            IN IF str.t = "throw" THEN thrown
               ELSE [t |-> "return", ref |-> "primitive", v |-> str.v]

\* The built ES module, dist/index.mjs.
errorToJsonValueMjs(error) ==
  LET thrown == [t |-> "throw", v |-> Undefined, ref |-> "none"]
      isError == InstanceofError(error)
  IN IF isError.t = "throw" THEN thrown
     ELSE IF isError.v.b
       THEN LET n == Get(error, "name")
                m == Get(error, "message")
                s == Get(error, "stack")
            IN IF n.t = "throw" \/ m.t = "throw" \/ s.t = "throw" THEN thrown
               ELSE [t |-> "return", ref |-> "fresh",
                     v |-> [name |-> n.v, message |-> m.v, stack |-> Or(s.v, Null)]]
       ELSE LET str == String(error)
            IN IF str.t = "throw" THEN thrown
               ELSE [t |-> "return", ref |-> "primitive", v |-> str.v]

\* The type JsonValue: string | number | boolean | null |
\* { [key: string]: JsonValue } | JsonValue[].  A value the function returns
\* is either a JavaScript value or the record of its object literal.
RECURSIVE IsJsonValue(_)
IsJsonValue(v) ==
  IF "kind" \notin DOMAIN v THEN \A k \in DOMAIN v : IsJsonValue(v[k])
  ELSE CASE v.kind \in {"string", "number", "boolean", "null"} -> TRUE
         [] v.kind = "object" /\ v.class = "Array" ->
              \A i \in DOMAIN v.elems : IsJsonValue(v.elems[i])
         [] v.kind = "object" /\ v.class = "Object" ->
              /\ v.toStr.t = "inherited"
              /\ \A k \in OwnKeys : v.own[k].t \in {"absent", "data"}
              /\ \A k \in OwnKeys : v.own[k].t = "data" => IsJsonValue(v.own[k].v)
         [] OTHER -> FALSE

\* What is kept of a finished invocation.
Finished(f, w, depth) ==
  [input0 |-> f.input0, input |-> f.input, out |-> f.out, fx |-> f.fx,
   world0 |-> f.world0, world1 |-> w, depth |-> depth, again |-> f.again,
   kept |-> FALSE]

VARIABLES callStack, world, returned

vars == <<callStack, world, returned>>

Top == callStack[Len(callStack)]

\* A variant in which name, message and stack live in one object shared by
\* all invocations instead of in each invocation's own frame.
BelowShared ==
  [i \in 1..(Len(callStack) - 1) |->
     [callStack[i] EXCEPT !.name = Top.name, !.message = Top.message,
                          !.stack = Top.stack]]

\* The caller's frames below the running one.
Below == SubSeq(callStack, 1, Len(callStack) - 1)

\* The running frame takes the step s.
Advance(s) ==
  /\ callStack' = Below \o <<s>>
  /\ world' = world + (s.fx - Top.fx)
  /\ UNCHANGED returned

Running(pc) == callStack # <<>> /\ Top.pc = pc /\ HookCall(Top) = <<>>

(***************************************************************************)
(* The arguments a caller may pass (error: unknown).                       *)
(***************************************************************************)
Trace == "TypeError: bad input\n at foo"

ErrorObj(chain, n, m, s, c, r) ==
  Obj("Error", chain,
      [name |-> n, message |-> m, stack |-> s, cause |-> c, request |-> r],
      Inherited, <<>>)

\* new Error("inner"), as a cause or as a value stored in another error.
InnerError ==
  ErrorObj(ErrorChain, Absent, Data(Str("inner")), Data(Str("Error: inner\n at bar")),
           Absent, Absent)

\* The error another error was caused by.
CauseError ==
  ErrorObj(ErrorChain, Absent, Data(Str("root cause")), Data(Str("Error: root cause\n at baz")),
           Absent, Absent)

\* The request an adapter's HTTP error carries (AdapterHttpError.request).
Request == Obj("Object", ObjectChain, NoOwn, Returns(Str("GET /")), <<>>)

\* The scenario of the package's contract: a TypeError("bad input") with a
\* captured stack.
BadInput ==
  ErrorObj(TypeErrorChain, Absent, Data(Str("bad input")), Data(Str(Trace)), Absent, Absent)

\* const o = {}; o.cause = o
CyclicObject == Obj("Object", ObjectChain, [NoOwn EXCEPT !["cause"] = Data(SelfRef)], Inherited, <<>>)

\* const e = new TypeError("bad input"); e.cause = e
CyclicError ==
  ErrorObj(TypeErrorChain, Absent, Data(Str("bad input")), Data(Str(Trace)), Data(SelfRef), Absent)

\* A counter object: its toString writes program state.
Counter == Obj("Object", ObjectChain, NoOwn, MethodEffect(Str("tick")), <<>>)

\* The arguments whose result a caller keeps for a later comparison.
Remembered == {BadInput, Counter, Num(42)}

\* What code of the input passes when it calls errorToJsonValue itself.
HookArgs == {Num(42), BadInput, Counter}

Primitives ==
  {Undefined, Null, Bool(TRUE), Bool(FALSE), Num(42), Num(0), Num(-7), BigInt(10),
   Str(""), Str("42"), Str("boom"), Sym("x")}

ToStringMethods ==
  {Inherited, Returns(Str("custom")), Returns(Str("")), Returns(Num(42)), Returns(Sym("x")),
   Returns(PlainObject), MethodThrows, MethodEffect(Str("custom"))}
    \cup {Reenters(Str("custom"), a) : a \in HookArgs}

\* Objects that do not have Error.prototype: { }, { message }, { name,
\* message }, with or without a toString of their own.
PlainObjects ==
  {Obj("Object", ObjectChain,
       [NoOwn EXCEPT !["name"] = n, !["message"] = m, !["stack"] = s], ts, <<>>) :
     n \in {Absent, Data(Str("TypeError"))},
     m \in {Absent, Data(Str("not a real error"))},
     s \in {Absent, Data(Str(Trace))},
     ts \in ToStringMethods}

\* Object.create(null), with and without fields.
NullProtoObjects ==
  {Obj("Object", NullChain, [NoOwn EXCEPT !["message"] = m], ts, <<>>) :
     m \in {Absent, Data(Str("not a real error"))},
     ts \in {Inherited, Returns(Str("custom"))}}

Arrays ==
  {Obj("Array", ArrayChain, NoOwn, Inherited, es) :
     es \in {<<>>, <<Num(1), Num(2)>>, <<Null, Str("a"), Undefined>>, <<Num(1), SelfRef>>,
             <<Sym("x")>>, <<PlainObject, Counter>>,
             <<Obj("Array", ArrayChain, NoOwn, Inherited, <<Num(1), Num(2)>>), Num(3)>>}}

NameSlots ==
  {Absent, Data(Str("TypeError")), Data(Str("")), Data(Undefined), GetterThrows,
   GetterEffect(Str("TypeError"))}

MessageSlots ==
  {Absent, Data(Str("bad input")), Data(InnerError), Data(Sym("m")), GetterThrows}

StackSlots ==
  {Absent, Data(Undefined), Data(Str(Trace)), Data(Str("")), Data(Num(0)),
   Data(FunctionObject), GetterEffect(Str(Trace)), GetterThrows}
    \cup {GetterReenters(Str(Trace), a) : a \in HookArgs}

ErrorChains == {ErrorChain, TypeErrorChain, SubclassChain, ForeignErrorChain}

\* Objects created by an Error constructor, of this realm or another one.
Errors ==
  {ErrorObj(ch, n, m, s, c, r) :
     ch \in ErrorChains, n \in NameSlots, m \in MessageSlots, s \in StackSlots,
     c \in {Absent, Data(CauseError)},
     r \in {Absent, Data(Request)}}

\* Object.create(Error.prototype): the prototype of an error without being
\* created by an Error constructor.
Mimics ==
  {Obj("Object", ErrorChain, [NoOwn EXCEPT !["message"] = m, !["stack"] = s], ts, <<>>) :
     m \in {Absent, Data(Str("not a real error"))},
     s \in {Absent, Data(Str(Trace))},
     ts \in {Inherited, MethodThrows}}

Inputs ==
  Primitives \cup PlainObjects \cup NullProtoObjects \cup Arrays \cup Errors \cup Mimics
    \cup {FunctionObject, HostileProxy, CyclicObject, CyclicError, Counter}

Init ==
  /\ callStack = <<>>
  /\ world = 0
  /\ returned = <<>>

\* A caller invokes errorToJsonValue(error), with an argument of the set S.
CallOf(S) ==
  /\ callStack = <<>>
  /\ \A i \in DOMAIN returned : returned[i].kept
  /\ world < MaxEffects
  /\ \E error \in S :
       callStack' = <<NewFrame(error, world, FALSE)>>
  /\ UNCHANGED <<world, returned>>

Call == CallOf(Inputs)

\* A caller passes the string that the last call returned to
\* errorToJsonValue again.
Renormalize ==
  /\ callStack = <<>>
  /\ returned # <<>>
  /\ LET last == returned[Len(returned)] IN
       /\ ~last.again
       /\ ~last.kept
       /\ last.out.t = "return"
       /\ last.out.ref = "primitive"
       /\ callStack' = <<NewFrame(last.out.v, world, TRUE)>>
  /\ UNCHANGED <<world, returned>>

\* The caller is done with what the last call returned; it may keep the
\* result of one call, to compare it with that of a later call.
Discard ==
  /\ callStack = <<>>
  /\ \E i \in DOMAIN returned : ~returned[i].kept
  /\ returned' \in {<<>>} \cup
       {<<[returned[i] EXCEPT !.kept = TRUE]>> :
          i \in {k \in DOMAIN returned :
                   returned[k].input0 \in Remembered /\ returned[k].depth = 0}}
  /\ UNCHANGED <<callStack, world>>

\* Code of the input calls errorToJsonValue from inside the running
\* invocation.
Reenter ==
  /\ callStack # <<>>
  /\ HookCall(Top) # <<>>
  /\ callStack' = Below \o <<[Top EXCEPT !.entered = TRUE]>>
                        \o <<NewFrame(HookCall(Top)[1], world, FALSE)>>
  /\ UNCHANGED <<world, returned>>

Instanceof == Running("instanceof") /\ Advance(StepInstanceof(Top))

ReadName == Running("name") /\ Advance(StepName(Top))

ReadMessage == Running("message") /\ Advance(StepMessage(Top))

ReadStack == Running("stack") /\ Advance(StepStack(Top))

BuildRecord == Running("record") /\ Advance(StepRecord(Top))

Stringify == Running("string") /\ Advance(StepString(Top))

\* The invocation ends, by return or by throw; its caller resumes.
Return ==
  /\ Running("done")
  /\ callStack' = Below
  /\ returned' = Append(returned, Finished(Top, world, Len(callStack) - 1))
  /\ UNCHANGED world

Next ==
  \/ Call
  \/ Renormalize
  \/ Discard
  \/ Reenter
  \/ Instanceof
  \/ ReadName
  \/ ReadMessage
  \/ ReadStack
  \/ BuildRecord
  \/ Stringify
  \/ Return

Spec == Init /\ [][Next]_vars

\* The steps of invocations in progress.
Run ==
  \/ Reenter
  \/ Instanceof
  \/ ReadName
  \/ ReadMessage
  \/ ReadStack
  \/ BuildRecord
  \/ Stringify
  \/ Return

\* The arguments with structure to go through or with code that calls back:
\* arrays (nested, holding themselves), objects and errors that hold
\* themselves, objects whose toString or stack getter calls errorToJsonValue.
StructuredInputs ==
  Arrays \cup Mimics \cup NullProtoObjects
    \cup {CyclicObject, CyclicError, BadInput, Counter, PlainObject, HostileProxy, Num(42),
          Str("boom"), Null}
    \cup {Obj("Object", ObjectChain, NoOwn, ts, <<>>) : ts \in ToStringMethods}
    \cup {ErrorObj(ErrorChain, Absent, Data(Str("bad input")), s, Data(CauseError), Absent) :
            s \in StackSlots}

CallStructured == CallOf(StructuredInputs)

NextStructured ==
  \/ CallStructured
  \/ Renormalize
  \/ Discard
  \/ Run

\* The function is synchronous: an invocation in progress runs on until it
\* returns or throws.
FairSpec == Init /\ [][NextStructured]_vars /\ WF_vars(Run)

(***************************************************************************)
(* Properties of errorToJsonValue.                                         *)
(***************************************************************************)
\* The invocations finished since the caller last looked.
Recs == {returned[i] : i \in DOMAIN returned}

RecordKeys == {"name", "message", "stack"}

\* An error of this realm: created by an Error constructor and having
\* Error.prototype.
GenuineError(v) ==
  v.kind = "object" /\ v.class = "Error" /\ ChainHas(v.chain, "Error.prototype")

Reads(v, key) == Get(v, key).t = "normal"

\* The error's name and message can be read, and its stack is a string.
StackIsString(v) ==
  /\ GenuineError(v)
  /\ Reads(v, "name") /\ Reads(v, "message") /\ Reads(v, "stack")
  /\ Get(v, "stack").v.kind = "string"

\* The output is the record { name, message, stack } of the error's values.
ExactRecord(r) ==
  /\ r.out.t = "return"
  /\ DOMAIN r.out.v = RecordKeys
  /\ r.out.v.name = Get(r.input0, "name").v
  /\ r.out.v.message = Get(r.input0, "message").v
  /\ r.out.v.stack = Get(r.input0, "stack").v

\* C1, as stated: for every error instance with a defined stack trace string
\* (the empty string included) the output is exactly { name, message, stack }
\* with the error's name and message and with stack equal to that string.
C1_DefinedStackKept ==
  \A r \in Recs : StackIsString(r.input0) => ExactRecord(r)

\* C1, amended: for every error instance whose stack trace is a non-empty
\* string the output is exactly { name, message, stack } with the error's
\* name and message and with stack equal to the trace string.
C1_NonEmptyStackKept ==
  \A r \in Recs :
    StackIsString(r.input0) /\ Get(r.input0, "stack").v.s # "" => ExactRecord(r)

\* The TypeError("bad input") of the contract's scenario has been normalised
\* to { name: "TypeError", message: "bad input", stack: <its trace> }.
C1_Witness ==
  \E r \in Recs :
    /\ r.input0 = BadInput
    /\ r.out.t = "return"
    /\ r.out.v = [name |-> Str("TypeError"), message |-> Str("bad input"),
                  stack |-> Str(Trace)]

\* C2: for every error instance whose stack is undefined the output record
\* has the field stack, and its value is null.
C2_MissingStackIsNull ==
  \A r \in Recs :
    /\ GenuineError(r.input0)
    /\ Reads(r.input0, "name") /\ Reads(r.input0, "message") /\ Reads(r.input0, "stack")
    /\ Get(r.input0, "stack").v = Undefined
    => /\ r.out.t = "return"
       /\ "stack" \in DOMAIN r.out.v
       /\ r.out.v.stack = Null

\* An error without a captured stack has been normalised, with stack: null.
C2_Witness ==
  \E r \in Recs :
    /\ GenuineError(r.input0)
    /\ r.input0.own["stack"].t = "absent"
    /\ r.input0.own["message"] = Data(Str("bad input"))
    /\ r.out.t = "return"
    /\ r.out.v.stack = Null

\* The inputs C3 lists: numbers, strings, booleans, null, undefined, plain
\* objects and arrays.
ListedNonError(v) ==
  \/ v.kind \in {"number", "string", "boolean", "null", "undefined"}
  \/ /\ v.kind = "object"
     /\ v.class \in {"Object", "Array"}
     /\ ~ChainHas(v.chain, "Error.prototype")

\* What the platform's String() gives for some of the inputs.
PlatformString(v) ==
  CASE v = Num(42) -> <<"42">>
    [] v = Num(0) -> <<"0">>
    [] v = Num(-7) -> <<"-7">>
    [] v = Null -> <<"null">>
    [] v = Undefined -> <<"undefined">>
    [] v = Bool(TRUE) -> <<"true">>
    [] v = Bool(FALSE) -> <<"false">>
    [] v = Str("boom") -> <<"boom">>
    [] v = PlainObject -> <<"[object Object]">>
    [] v = Obj("Array", ArrayChain, NoOwn, Inherited, <<Num(1), Num(2)>>) -> <<"1,2">>
    [] v = Obj("Array", ArrayChain, NoOwn, Inherited, <<>>) -> <<"">>
    [] OTHER -> <<>>

\* C3: for every input that is not an error instance (a number, string,
\* boolean, plain object, array, null or undefined) the output is the string
\* String(input): 42 gives "42" and null gives "null".
C3_NonErrorIsStringified ==
  \A r \in Recs :
    ListedNonError(r.input0) =>
      /\ r.out.t = "return" =>
           /\ String(r.input0).t = "normal"
           /\ r.out.v = String(r.input0).v
           /\ PlatformString(r.input0) # <<>> =>
                r.out.v = Str(PlatformString(r.input0)[1])
      /\ r.out.t = "throw" => String(r.input0).t = "throw"

\* 42 has been normalised to "42".
C3_Witness ==
  \E r \in Recs : r.input0 = Num(42) /\ r.out.t = "return" /\ r.out.v = Str("42")

\* C4, as stated: no call of errorToJsonValue ends by throwing, whatever the
\* input; every call ends by returning a value.
C4_NeverThrows ==
  \A r \in Recs : r.out.t = "return"

\* C5, as stated: for every input the value returned is a JSON-safe value,
\* also when the error's name, message or stack holds a non-string value.
C5_AlwaysJsonSafe ==
  \A r \in Recs : r.out.t = "return" => IsJsonValue(r.out.v)

\* An object that has name and/or message fields and is not an error
\* instance.
FieldsOnly(v) ==
  /\ v.kind = "object"
  /\ v.class = "Object"
  /\ ~ChainHas(v.chain, "Error.prototype")
  /\ v.own["name"].t = "data" \/ v.own["message"].t = "data"

\* C6: an object that carries name and/or message fields and is not an error
\* instance never takes the error branch: the output is its default string
\* conversion ("[object Object]" for { message: "not a real error" }), never
\* a { name, message, stack } record.
C6_FieldsDoNotSelectErrorBranch ==
  \A r \in Recs :
    FieldsOnly(r.input0) /\ r.out.t = "return" =>
      /\ "kind" \in DOMAIN r.out.v
      /\ r.out.v.kind = "string"
      /\ r.out.v = String(r.input0).v
      /\ r.input0.toStr.t = "inherited" /\ r.input0.chain = ObjectChain =>
           r.out.v = Str("[object Object]")

\* { message: "not a real error" } has been normalised to "[object Object]".
C6_Witness ==
  \E r \in Recs :
    /\ r.input0 = [PlainObject EXCEPT !.own["message"] = Data(Str("not a real error"))]
    /\ r.out.t = "return"
    /\ r.out.v = Str("[object Object]")

\* No code of the value writes program state or calls errorToJsonValue: its
\* accessors and toString methods, and those of the values it holds, only
\* return or throw.
RECURSIVE HookFree(_)
HookFree(v) ==
  \/ v.kind # "object"
  \/ /\ v.toStr.t \in {"inherited", "returns", "throws"}
     /\ HookFree(v.toStr.v)
     /\ \A k \in OwnKeys : v.own[k].t \in {"absent", "data", "throws"} /\ HookFree(v.own[k].v)
     /\ \A i \in DOMAIN v.elems : HookFree(v.elems[i])

\* C7, as stated: after every call the input and all other program state
\* are unchanged, and a returned record is a new object.
C7_NoSideEffects ==
  \A r \in Recs :
    /\ r.input = r.input0
    /\ r.world1 = r.world0
    /\ r.out.t = "return" /\ "kind" \notin DOMAIN r.out.v => r.out.ref = "fresh"

\* C7, amended: errorToJsonValue itself writes nothing: after every call the
\* input is unchanged and a returned record is a new object, and all other
\* program state is unchanged unless code supplied by the input (an accessor
\* or toString method the call runs) writes it.
C7_NoWritesOfItsOwn ==
  \A r \in Recs :
    /\ r.input = r.input0
    /\ r.out.t = "return" /\ "kind" \notin DOMAIN r.out.v => r.out.ref = "fresh"
    /\ HookFree(r.input0) => r.world1 = r.world0

\* An error with a cause has been normalised to a record, and neither the
\* error nor anything else has changed.
C7_Witness ==
  \E r \in Recs :
    /\ GenuineError(r.input0)
    /\ HookFree(r.input0)
    /\ r.input0.own["cause"].t = "data"
    /\ r.out.t = "return"
    /\ r.out.ref = "fresh"
    /\ r.input = r.input0
    /\ r.world1 = r.world0

\* C8: normalising a string output again returns it unchanged:
\* errorToJsonValue(errorToJsonValue(x)) = errorToJsonValue(x) whenever
\* errorToJsonValue(x) is a string.
C8_RenormalizingIsIdentity ==
  \A i \in DOMAIN returned :
    returned[i].again =>
      /\ i > 1
      /\ returned[i].input0 = returned[i - 1].out.v
      /\ returned[i].out.t = "return"
      /\ returned[i].out.v = returned[i - 1].out.v

\* A non-empty string output of an object input has been normalised again.
C8_Witness ==
  \E i \in DOMAIN returned :
    /\ returned[i].again
    /\ returned[i].out.t = "return"
    /\ returned[i].out.v.s # ""
    /\ returned[i - 1].input0.kind = "object"

\* The values of the properties an error has besides name, message, stack.
Extras(v) == {v.own[k].v : k \in {k2 \in OwnKeys \ RecordKeys : v.own[k2].t = "data"}}

\* The error without those properties.
Stripped(v) == [v EXCEPT !.own["cause"] = Absent, !.own["request"] = Absent]

\* C9: the record of an error is flat: for every error input that carries a
\* cause or other own properties (an adapter error's request), the output has
\* only the fields name, message and stack, none of them holds the cause or
\* the other properties, and the output is that of the error without them.
C9_RecordIsFlat ==
  \A r \in Recs :
    GenuineError(r.input0) /\ Extras(r.input0) # {} /\ r.out.t = "return" =>
      /\ DOMAIN r.out.v = RecordKeys
      /\ \A k \in DOMAIN r.out.v : r.out.v[k] \notin Extras(r.input0)
      /\ r.out.v = errorToJsonValue(Stripped(r.input0)).v

\* An error with both a cause and a request has been normalised.
C9_Witness ==
  \E r \in Recs :
    /\ GenuineError(r.input0)
    /\ r.input0.own["cause"] = Data(CauseError)
    /\ r.input0.own["request"] = Data(Request)
    /\ r.out.t = "return"
    /\ DOMAIN r.out.v = RecordKeys

\* C10: under every interleaving of invocations, one started from inside
\* another's stringification or property read included, each invocation's
\* result is the result its input gives when the function runs alone.
C10_ResultAsWhenAlone ==
  \A r \in Recs : r.out = errorToJsonValue(r.input0)

\* An invocation started from inside another one has returned, and then the
\* outer one has returned a record.
C10_Witness ==
  \E i \in DOMAIN returned :
    /\ i > 1
    /\ returned[i].depth = 0
    /\ returned[i - 1].depth = 1
    /\ returned[i - 1].out.t = "return"
    /\ returned[i].out.t = "return"
    /\ "kind" \notin DOMAIN returned[i].out.v

\* The class/kind name of an error: the name it sets, else the name of its
\* class.
KindName(v) ==
  IF v.own["name"].t = "absent" THEN Str(ConstructorName(v.chain)) ELSE Get(v, "name").v

\* C11, as stated: in every error-shaped record, name is the error's
\* class/kind name and message is the error's message, also for an instance
\* of a subclass that does not set its own name.
C11_NameIsClassName ==
  \A r \in Recs :
    GenuineError(r.input0) /\ r.out.t = "return" =>
      /\ r.out.v.name = KindName(r.input0)
      /\ r.out.v.message = Get(r.input0, "message").v

\* C11, amended: in every error-shaped record, name is the value of the
\* error's name property and message the value of its message property; an
\* instance of a subclass that does not set its own name has the inherited
\* name "Error", not the name of its class.
C11_NameIsNameProperty ==
  \A r \in Recs :
    GenuineError(r.input0) /\ r.out.t = "return" =>
      /\ r.out.v.name = Get(r.input0, "name").v
      /\ r.out.v.message = Get(r.input0, "message").v
      /\ r.input0.own["name"].t = "absent" /\ r.input0.chain = SubclassChain =>
           r.out.v.name = Str("Error")
      /\ r.input0.own["name"].t = "absent" /\ r.input0.chain = TypeErrorChain =>
           r.out.v.name = Str("TypeError")

\* An HttpError that sets no name has been normalised, with name "Error".
C11_Witness ==
  \E r \in Recs :
    /\ GenuineError(r.input0)
    /\ r.input0.chain = SubclassChain
    /\ r.input0.own["name"].t = "absent"
    /\ r.input0.own["message"] = Data(Str("bad input"))
    /\ r.out.t = "return"
    /\ r.out.v.name = Str("Error")
    /\ r.out.v.message = Str("bad input")

\* C12, as stated: in every error-shaped record, name is a string, message
\* is a string and stack is a string or null, whatever the error's name,
\* message and stack hold at call time.
C12_FieldTypes ==
  \A r \in Recs :
    r.out.t = "return" /\ "kind" \notin DOMAIN r.out.v =>
      /\ r.out.v.name.kind = "string"
      /\ r.out.v.message.kind = "string"
      /\ r.out.v.stack.kind \in {"string", "null"}

\* Error.prototype of the function's realm is on the prototype chain.
OnErrorChain(v) ==
  /\ v.kind = "object"
  /\ \E i \in DOMAIN v.chain : v.chain[i] = "Error.prototype"

\* C13, as stated: the error branch is taken exactly when the input is a
\* genuine error: every subclass instance yields a record, and every value
\* that is not a genuine error, a mimic of an error's shape or prototype
\* included, yields a string.
C13_BranchIffGenuine ==
  \A r \in Recs :
    r.out.t = "return" =>
      ("kind" \notin DOMAIN r.out.v <=> GenuineError(r.input0))

\* C13, amended: the error branch is taken exactly when error instanceof
\* Error holds, that is when Error.prototype of the function's realm is on
\* the input's prototype chain: every subclass instance yields a record and
\* every value without that prototype, one with error-like fields included,
\* yields a string; an object that has Error.prototype without being made by
\* an Error constructor yields a record too.
C13_BranchIffInstanceof ==
  \A r \in Recs :
    r.out.t = "return" =>
      /\ "kind" \notin DOMAIN r.out.v <=> OnErrorChain(r.input0)
      /\ "kind" \in DOMAIN r.out.v => r.out.v.kind = "string"
      /\ r.input0.kind = "object" /\ r.input0.class = "Error"
           /\ r.input0.chain \in {ErrorChain, TypeErrorChain, SubclassChain} =>
           DOMAIN r.out.v = RecordKeys

\* Object.create(Error.prototype) has been normalised to a record, and so
\* has an instance of a subclass.
C13_Witness ==
  \E r \in Recs :
    /\ r.out.t = "return"
    /\ DOMAIN r.out.v = RecordKeys
    /\ \/ r.input0.class = "Object" /\ r.input0.chain = ErrorChain
       \/ r.input0.class = "Error" /\ r.input0.chain = SubclassChain

\* An object that is not an error and defines its own toString.
OwnToString(v) ==
  /\ v.kind = "object"
  /\ ~OnErrorChain(v)
  /\ v.toStr.t \in {"returns", "effect", "reenter"}

\* C14: for a non-error input that defines its own toString the output is
\* what the platform's stringification of the value gives, the result of
\* that toString, with no formatting, truncation or inspection of fields of
\* the function's own; arrays and plain objects are stringified the same way.
C14_OwnToStringDecides ==
  \A r \in Recs :
    /\ OwnToString(r.input0) /\ r.input0.toStr.v.kind = "string" =>
         r.out.t = "return" /\ r.out.v = r.input0.toStr.v
    /\ OwnToString(r.input0) /\ r.input0.toStr.v = Num(42) =>
         r.out.t = "return" /\ r.out.v = Str("42")
    /\ OwnToString(r.input0) /\ r.input0.toStr.v.kind \in {"symbol", "object"} =>
         r.out.t = "throw"
    /\ r.input0.kind = "object" /\ r.input0.class = "Object"
         /\ r.input0.chain = ObjectChain /\ r.input0.toStr.t = "inherited" =>
         r.out.t = "return" /\ r.out.v = Str("[object Object]")
    /\ r.input0 = Obj("Array", ArrayChain, NoOwn, Inherited, <<Null, Str("a"), Undefined>>) =>
         r.out.t = "return" /\ r.out.v = Str(",a,")

\* An object with fields whose toString returns "custom" has been normalised
\* to "custom".
C14_Witness ==
  \E r \in Recs :
    /\ r.input0.kind = "object"
    /\ r.input0.toStr = Returns(Str("custom"))
    /\ r.input0.own["message"].t = "data"
    /\ r.out.t = "return"
    /\ r.out.v = Str("custom")

\* The array without its elements.
Emptied(v) == [v EXCEPT !.elems = <<>>]

FalsyStacks == {Str(""), Num(0)}

\* C16: for an error instance whose stack is the empty string, or another
\* falsy value, the output has stack: null, not the stack's own value.
C16_FalsyStackIsNull ==
  \A r \in Recs :
    /\ GenuineError(r.input0)
    /\ Reads(r.input0, "name") /\ Reads(r.input0, "message") /\ Reads(r.input0, "stack")
    /\ Get(r.input0, "stack").v \in FalsyStacks
    => /\ r.out.t = "return"
       /\ r.out.v.stack = Null

\* An error whose stack is "" has been normalised, with stack: null.
C16_Witness ==
  \E r \in Recs :
    /\ GenuineError(r.input0)
    /\ r.input0.own["stack"] = Data(Str(""))
    /\ r.out.t = "return"
    /\ r.out.v.stack = Null

\* C17: whatever the input, a returned value is either a string or a record
\* whose keys are exactly name, message and stack.
C17_StringOrRecord ==
  \A r \in Recs :
    r.out.t = "return" =>
      IF "kind" \in DOMAIN r.out.v
      THEN r.out.v.kind = "string" /\ DOMAIN r.out.v = {"kind", "s"}
      ELSE DOMAIN r.out.v = RecordKeys

\* A call has returned a string for an input that is no string, and in the
\* same run a call has returned a record.
C17_Witness ==
  /\ \E r \in Recs : r.out.t = "return" /\ DOMAIN r.out.v = RecordKeys
  /\ \E r \in Recs :
       /\ r.out.t = "return"
       /\ "kind" \in DOMAIN r.out.v
       /\ r.input0.kind # "string"

\* C18: errorToJsonValue is deterministic: two calls given equal inputs
\* return equal outputs (or both throw), whatever calls were made before and
\* whatever the program's state at each call.
C18_EqualInputsEqualOutputs ==
  \A r1 \in Recs : \A r2 \in Recs :
    r1.input0 = r2.input0 => r1.out = r2.out

\* A call has returned for an input that an earlier call, made in another
\* state of the program, was given too.
C18_Witness ==
  \E i \in DOMAIN returned : \E j \in DOMAIN returned :
    /\ returned[i].kept
    /\ ~returned[j].kept
    /\ returned[j].input0 = returned[i].input0
    /\ returned[j].world0 # returned[i].world0
    /\ returned[j].out.t = "return"

\* C19: the built artifacts agree with the source: for every input,
\* errorToJsonValue of dist/index.js and of dist/index.mjs returns what
\* errorToJsonValue of src/index.ts returns, and throws where it throws.
C19_ArtifactsAgreeWithSource ==
  \A r \in Recs :
    /\ errorToJsonValueJs(r.input0) = r.out
    /\ errorToJsonValueMjs(r.input0) = r.out

\* The source has returned a record with stack: null for an error whose
\* stack is "", as the artifacts do.
C19_Witness ==
  \E r \in Recs :
    /\ GenuineError(r.input0)
    /\ r.input0.own["stack"] = Data(Str(""))
    /\ r.out.t = "return"
    /\ errorToJsonValueJs(r.input0) = r.out
    /\ errorToJsonValueMjs(r.input0).v.stack = Null

====
